---- MODULE Spec2Model ----
(***************************************************************************)
(* A model of the rbig crate: the Sign and RBig types of src/lib.rs, the   *)
(* NonZeroUBig wrapper of src/nonzero_ubig.rs and the binary gcd of        *)
(* src/util.rs.  UBig is modelled by Nat and IBig by Int (both are         *)
(* arbitrary-precision in the crate, so no width is lost).                 *)
(*                                                                         *)
(* The crate is a library of value types.  Each specification below is a   *)
(* caller holding values of one of the types and applying the crate's      *)
(* operations to them:                                                     *)
(*   Spec       an RBig register x driven through constructors and the     *)
(*              arithmetic operations                                      *)
(*   SpecCmp    two RBig values compared, tested for equality and hashed   *)
(*   SpecOrder  three RBig values compared pairwise                        *)
(*   SpecGcd    util::gcd applied to two UBig values                       *)
(*   SpecRound  an RBig value rounded with each rounding strategy          *)
(*   SpecNZ     a NonZeroUBig driven through its safe operations           *)
(***************************************************************************)
EXTENDS Integers, Sequences, FiniteSets, TLC

VARIABLES
    x, prev, arg, inum, iden, op, outcome,   \* Spec
    a, b, c, cop, eqres, ordres, hashres,    \* SpecCmp, SpecOrder
    gn, gm, gdone, gres,                     \* SpecGcd
    rx, rop, rdir, rres,                     \* SpecRound
    nzv, nzop, nzarg, nzout                  \* SpecNZ

arithVars == <<x, prev, arg, inum, iden, op, outcome>>
cmpVars == <<a, b, c, cop, eqres, ordres, hashres>>
gcdVars == <<gn, gm, gdone, gres>>
roundVars == <<rx, rop, rdir, rres>>
nzVars == <<nzv, nzop, nzarg, nzout>>
vars == <<arithVars, cmpVars, gcdVars, roundVars, nzVars>>

(***************************************************************************)
(* Bounds of the model.                                                    *)
(***************************************************************************)
\* results of the arithmetic register are kept within these magnitudes
MaxNumer == 8
MaxDenom == 16
\* operands handed to the arithmetic operations and constructors
MaxArgNumer == 3
MaxArgDenom == 4
\* exponents handed to unsigned_pow / signed_pow
MaxExp == 2
\* the values compared, tested for equality and hashed
MaxCmpNumer == 6
MaxCmpDenom == 6
\* the three values ordered pairwise
MaxOrdNumer == 3
MaxOrdDenom == 3
\* gcd's arguments
MaxGcdArg == 24
\* the values rounded
MaxRoundNumer == 12
MaxRoundDenom == 5
\* NonZeroUBig's inner value and the operands of its operations
MaxNZ == 12
MaxNZArg == 3

(***************************************************************************)
(* Sign  (src/lib.rs)                                                      *)
(***************************************************************************)
Sign == {"Negative", "Positive"}

positive_if(bool) == IF bool THEN "Positive" ELSE "Negative"

sign_is_positive(s) == s = "Positive"

sign_pow(s, exp) ==
    IF s = "Positive" THEN "Positive" ELSE positive_if(exp % 2 = 0)

sign_neg(s) == IF s = "Positive" THEN "Negative" ELSE "Positive"

sign_mul(s, t) == positive_if(s = t)

\* impl Mul<IBig> for Sign
sign_mul_ibig(s, i) == IF s = "Positive" THEN i ELSE -i

(***************************************************************************)
(* ibig primitives used by the crate                                       *)
(***************************************************************************)
\* IBig::unsigned_abs
unsigned_abs(i) == IF i >= 0 THEN i ELSE -i

RECURSIVE ubig_pow(_, _)
\* UBig::pow: repeated multiplication, with n^0 = 1
ubig_pow(n, exp) == IF exp = 0 THEN 1 ELSE n * ubig_pow(n, exp - 1)

RECURSIVE trailing_zeros(_)
\* UBig::trailing_zeros of a non-zero value (the crate matches None for 0
\* before it uses the count)
trailing_zeros(n) == IF n % 2 = 1 THEN 0 ELSE 1 + trailing_zeros(n \div 2)

\* n >> i and n << k
shr(n, i) == n \div ubig_pow(2, i)
shl(n, k) == n * ubig_pow(2, k)

min(i, j) == IF i <= j THEN i ELSE j

(***************************************************************************)
(* util::gcd  (src/util.rs)                                                *)
(***************************************************************************)
RECURSIVE gcd_loop(_, _, _)
\* the loop of gcd: n and m odd on entry; swap so that n <= m, m -= n,
\* return n << k when m = 0, else strip m's trailing zeros and repeat
gcd_loop(n, m, k) ==
    LET n1 == IF n > m THEN m ELSE n
        m1 == IF n > m THEN n ELSE m
        m2 == m1 - n1
    IN IF m2 = 0 THEN shl(n1, k)
       ELSE gcd_loop(n1, shr(m2, trailing_zeros(m2)), k)

\* a gcd that forgets the final shift by k
gcd_no_shift(n, m) ==
    IF n = 0 THEN m
    ELSE IF m = 0 THEN shr(n, trailing_zeros(n))
    ELSE gcd_loop(shr(n, trailing_zeros(n)), shr(m, trailing_zeros(m)), 0)

gcd(n, m) ==
    IF n = 0 THEN m                             \* None => return m
    ELSE LET i == trailing_zeros(n)
             ns == shr(n, i)                    \* n >>= i
         IN IF m = 0 THEN ns                    \* None => return n (shifted)
            ELSE LET j == trailing_zeros(m)
                     ms == shr(m, j)            \* m >>= j
                 IN gcd_loop(ns, ms, min(i, j))

(***************************************************************************)
(* Results of operations that may return None or panic                     *)
(***************************************************************************)
None == [kind |-> "none"]
Some(v) == [kind |-> "some", val |-> v]
Panic == [kind |-> "panic"]

(***************************************************************************)
(* NonZeroUBig  (src/nonzero_ubig.rs); the wrapper is modelled by its      *)
(* inner value                                                             *)
(***************************************************************************)
nz_one == 1

nz_new(u) == IF u # 0 THEN Some(u) ELSE None

nz_get(nz) == nz

nz_pow(nz, exp) == ubig_pow(nz, exp)

nz_mul(nz, rhs) == nz * rhs

\* impl Div<UBig> / DivAssign<UBig>: self.0 / rhs, no check of the quotient;
\* UBig division panics on a zero divisor
nz_div(nz, rhs) == IF rhs = 0 THEN Panic ELSE Some(nz \div rhs)

nz_add(nz, rhs) == nz + rhs

(***************************************************************************)
(* RBig  (src/lib.rs): construction                                        *)
(***************************************************************************)
RBig_new(sign, numer, denom) == [sign |-> sign, numer |-> numer, denom |-> denom]

from_numer_denom(numer, denom) ==
    LET is_positive == (numer >= 0) = (denom >= 0)
        nz == nz_new(unsigned_abs(denom))
    IN IF nz.kind = "none" THEN None
       ELSE Some(RBig_new(positive_if(is_positive), unsigned_abs(numer), nz.val))

from_numer_unsigned_denom(numer, denom) ==
    RBig_new(positive_if(numer >= 0), unsigned_abs(numer), denom)

from_ubig(numer) == RBig_new("Positive", numer, nz_one)

from_ibig(numer) == RBig_new(positive_if(numer >= 0), unsigned_abs(numer), nz_one)

(***************************************************************************)
(* RBig: helper functions, equality, ordering, hashing                     *)
(***************************************************************************)
cross_mul_abs(self, rhs) ==
    <<self.numer * nz_get(rhs.denom), rhs.numer * nz_get(self.denom)>>

cross_mul_signed(self, rhs) ==
    <<sign_mul_ibig(self.sign, self.numer * nz_get(rhs.denom)),
      sign_mul_ibig(rhs.sign, rhs.numer * nz_get(self.denom))>>

\* a signum that trusts the stored sign of a zero
logical_signum_stored_sign(self) ==
    IF self.sign = "Positive" THEN "Pos" ELSE "Neg"

logical_signum(self) ==
    IF self.numer = 0 THEN "Zero"
    ELSE IF self.sign = "Positive" THEN "Pos" ELSE "Neg"

\* #[derive(Ord)] on LogicalSignum: Neg < Zero < Pos
signum_rank(s) == CASE s = "Neg" -> 0 [] s = "Zero" -> 1 [] s = "Pos" -> 2

\* Ord::cmp on integers
ord_cmp(i, j) == IF i < j THEN "Less" ELSE IF i = j THEN "Equal" ELSE "Greater"

\* an equality that forgets the comparison of the signs
eq_no_sign(self, other) ==
    LET p == cross_mul_abs(self, other) IN p[1] = p[2]

eq(self, other) ==
    IF self.numer = 0 /\ other.numer = 0 THEN TRUE
    ELSE self.sign = other.sign
         /\ LET p == cross_mul_abs(self, other) IN p[1] = p[2]

cmp(self, other) ==
    LET first == ord_cmp(signum_rank(logical_signum(self)),
                         signum_rank(logical_signum(other)))
    IN IF first # "Equal" THEN first                      \* then_with
       ELSE LET p == cross_mul_abs(self, other) IN ord_cmp(p[1], p[2])

\* impl Neg for RBig
neg(self) == [self EXCEPT !.sign = sign_neg(self.sign)]

\* abs
abs(self) == [self EXCEPT !.sign = "Positive"]

is_positive(self) == self.numer # 0 /\ sign_is_positive(self.sign)

is_negative(self) == self.numer # 0 /\ ~sign_is_positive(self.sign)

is_zero(self) == self.numer = 0

(***************************************************************************)
(* RBig: reciprocal and reduction                                          *)
(***************************************************************************)
unchecked_recip(self) == [self EXCEPT !.numer = self.denom, !.denom = self.numer]


checked_recip(self) ==
    IF self.numer = 0 THEN None ELSE Some(unchecked_recip(self))

\* a recip without the assertion
recip_no_assert(self) == Some(unchecked_recip(self))

recip(self) ==
    IF self.numer = 0 THEN Panic               \* assert_ne!
    ELSE Some(unchecked_recip(self))

reduce(self) ==
    LET g == gcd(self.numer, nz_get(self.denom))
    IN [self EXCEPT !.numer = self.numer \div g,
                    !.denom = nz_div(self.denom, g).val]

reduced(self) == reduce(self)

\* the tuple impl Hash feeds to the hasher
hash_tuple(self) ==
    LET r == reduced(self)
        sign == IF r.numer = 0 THEN "Positive" ELSE r.sign
    IN <<sign, r.numer, r.denom>>

(***************************************************************************)
(* RBig: arithmetic  (mod arith_impls)                                     *)
(***************************************************************************)
mul(self, rhs) ==
    [sign |-> sign_mul(self.sign, rhs.sign),
     numer |-> self.numer * rhs.numer,
     denom |-> nz_mul(self.denom, rhs.denom)]

\* self * rhs.recip(); the panic of recip propagates
div(self, rhs) ==
    LET r == recip(rhs)
    IN IF r.kind = "panic" THEN Panic ELSE Some(mul(self, r.val))

mul_assign(self, rhs) ==
    [sign |-> sign_mul(self.sign, rhs.sign),
     numer |-> self.numer * rhs.numer,
     denom |-> nz_mul(self.denom, rhs.denom)]

div_assign(self, rhs) ==
    LET r == recip(rhs)
    IN IF r.kind = "panic" THEN Panic ELSE Some(mul_assign(self, r.val))

add(self, rhs) ==
    LET denom == nz_mul(self.denom, rhs.denom)
        p == cross_mul_signed(self, rhs)
        numer == p[1] + p[2]
    IN from_numer_unsigned_denom(numer, denom)

sub(self, rhs) ==
    LET denom == nz_mul(self.denom, rhs.denom)
        p == cross_mul_signed(self, rhs)
        numer == p[1] - p[2]
    IN from_numer_unsigned_denom(numer, denom)

\* an add_assign that never flips the sign: the magnitude difference is
\* taken, the stored sign kept
add_assign_no_flip(self, rhs) ==
    LET delta == rhs.numer * nz_get(self.denom)
        numer == self.numer * nz_get(rhs.denom)
        denom == nz_mul(self.denom, rhs.denom)
    IN IF sign_is_positive(sign_mul(rhs.sign, self.sign))
       THEN [sign |-> self.sign, numer |-> numer + delta, denom |-> denom]
       ELSE [sign |-> self.sign,
             numer |-> IF numer >= delta THEN numer - delta ELSE delta - numer,
             denom |-> denom]

add_assign(self, rhs) ==
    LET delta == rhs.numer * nz_get(self.denom)
        numer == self.numer * nz_get(rhs.denom)       \* self.numer *= rhs.denom
        denom == nz_mul(self.denom, rhs.denom)        \* self.denom *= rhs.denom
        rel_sign == sign_mul(rhs.sign, self.sign)
    IN IF sign_is_positive(rel_sign)
       THEN [sign |-> self.sign, numer |-> numer + delta, denom |-> denom]
       ELSE IF numer >= delta
       THEN [sign |-> self.sign, numer |-> numer - delta, denom |-> denom]
       ELSE [sign |-> sign_neg(self.sign), numer |-> delta - numer, denom |-> denom]

sub_assign(self, rhs) == add_assign(self, neg(rhs))

(***************************************************************************)
(* RBig: rounding                                                          *)
(***************************************************************************)
RoundingDirection == {"TowardsZero", "AwayFromZero"}

\* the deciders of mod rounding, as values: the two literal directions,
\* Floor, Ceil, TowardNearestEven, TowardNearestOdd, and TowardNearest with
\* one of the former as its tie_breaker
Literal(dir) == [kind |-> "Literal", dir |-> dir]
Floor == [kind |-> "Floor"]
Ceil == [kind |-> "Ceil"]
TowardNearestEven == [kind |-> "TowardNearestEven"]
TowardNearestOdd == [kind |-> "TowardNearestOdd"]
TowardNearest(tie_breaker) == [kind |-> "TowardNearest", tie_breaker |-> tie_breaker]

abs_floor(self) == self.numer \div nz_get(self.denom)

\* a ceiling that adds one to the floor, also when the division is exact
abs_ceil_impl_floor_plus_one(self) == self.numer \div nz_get(self.denom) + 1

abs_ceil_impl(self) == (self.numer - 1) \div nz_get(self.denom) + 1

abs_ceil(self) == IF self.numer = 0 THEN 0 ELSE abs_ceil_impl(self)

RECURSIVE decide(_, _), round(_, _), round_abs(_, _)

decide_floor(to_round) ==
    IF is_negative(to_round) THEN "AwayFromZero" ELSE "TowardsZero"

decide_ceil(to_round) ==
    IF is_positive(to_round) THEN "AwayFromZero" ELSE "TowardsZero"

\* a TowardNearestEven with the parity test inverted
decide_even_inverted(to_round) ==
    IF round_abs(to_round, Literal("TowardsZero")) % 2 = 1
    THEN "TowardsZero" ELSE "AwayFromZero"

decide_even(to_round) ==
    IF round_abs(to_round, Literal("TowardsZero")) % 2 = 0
    THEN "TowardsZero" ELSE "AwayFromZero"

decide_odd(to_round) ==
    IF round_abs(to_round, Literal("TowardsZero")) % 2 = 1
    THEN "TowardsZero" ELSE "AwayFromZero"

decide(D, to_round) ==
    CASE D.kind = "Literal" -> D.dir
      [] D.kind = "Floor" -> decide_floor(to_round)
      [] D.kind = "Ceil" -> decide_ceil(to_round)
      [] D.kind = "TowardNearestEven" -> decide_even(to_round)
      [] D.kind = "TowardNearestOdd" -> decide_odd(to_round)
      [] D.kind = "TowardNearest" ->
           LET fr == sub(to_round, from_ibig(round(to_round, Literal("TowardsZero"))))
               abs_fract == abs(fr)
               o == ord_cmp(abs_fract.numer * 2, abs_fract.denom)
           IN CASE o = "Greater" -> "AwayFromZero"
                [] o = "Less" -> "TowardsZero"
                [] o = "Equal" -> decide(D.tie_breaker, to_round)

round_abs(self, D) ==
    LET s == abs(self)
    IN IF decide(D, s) = "TowardsZero" THEN abs_floor(s) ELSE abs_ceil(s)

round(self, D) ==
    LET absv == IF decide(D, self) = "TowardsZero"
                THEN abs_floor(self) ELSE abs_ceil(self)
    IN sign_mul_ibig(self.sign, absv)

trunc(self) == from_ibig(round(self, Literal("TowardsZero")))

fract(self) == RBig_new(self.sign, self.numer % nz_get(self.denom), self.denom)

signum(self) ==
    IF is_zero(self) THEN from_ubig(0)
    ELSE from_ibig(sign_mul_ibig(self.sign, 1))

unsigned_pow(self, exp) ==
    [sign |-> sign_pow(self.sign, exp),
     numer |-> ubig_pow(self.numer, exp),
     denom |-> nz_pow(self.denom, exp)]

\* exp.unsigned_abs(), then the reciprocal unless exp is positive
signed_pow(self, exp) ==
    LET res == unsigned_pow(self, unsigned_abs(exp))
    IN IF exp > 0 THEN Some(res) ELSE recip(res)

(***************************************************************************)
(* The values a caller can hold, and the resting state of each group of    *)
(* variables in the specifications that do not use it                      *)
(***************************************************************************)
RBigSet(maxNumer, maxDenom) == [sign : Sign, numer : 0..maxNumer, denom : 1..maxDenom]

ArithIdle ==
    /\ x = from_ubig(0) /\ prev = from_ubig(0) /\ arg = from_ubig(0)
    /\ inum = 0 /\ iden = 0 /\ op = "idle" /\ outcome = "idle"

CmpIdle ==
    /\ a = from_ubig(0) /\ b = from_ubig(0) /\ c = from_ubig(0)
    /\ cop = {} /\ eqres = "unset" /\ ordres = "unset" /\ hashres = "unset"

GcdIdle == gn = 0 /\ gm = 0 /\ gdone = FALSE /\ gres = 0

RoundIdle == rx = from_ubig(0) /\ rop = "idle" /\ rdir = "idle" /\ rres = 0

NZIdle == nzv = nz_one /\ nzop = "idle" /\ nzarg = 0 /\ nzout = "idle"

(***************************************************************************)
(* SpecGcd: gcd(gn, gm) is called once                                     *)
(***************************************************************************)
InitGcd ==
    /\ gn \in 0..MaxGcdArg /\ gm \in 0..MaxGcdArg
    /\ gdone = FALSE /\ gres = 0
    /\ ArithIdle /\ CmpIdle /\ RoundIdle /\ NZIdle

CallGcd ==
    /\ ~gdone
    /\ gres' = gcd(gn, gm)
    /\ gdone' = TRUE
    /\ UNCHANGED <<gn, gm, arithVars, cmpVars, roundVars, nzVars>>

NextGcd == CallGcd

SpecGcd == InitGcd /\ [][NextGcd]_vars

(***************************************************************************)
(* SpecCmp: a and b are tested for equality, compared and hashed           *)
(* SpecOrder: a, b and c are compared pairwise                             *)
(***************************************************************************)
InitCmp ==
    /\ a \in RBigSet(MaxCmpNumer, MaxCmpDenom)
    /\ b \in RBigSet(MaxCmpNumer, MaxCmpDenom)
    /\ c = from_ubig(0)
    /\ cop = {} /\ eqres = "unset" /\ ordres = "unset" /\ hashres = "unset"
    /\ ArithIdle /\ GcdIdle /\ RoundIdle /\ NZIdle

InitOrder ==
    /\ a \in RBigSet(MaxOrdNumer, MaxOrdDenom)
    /\ b \in RBigSet(MaxOrdNumer, MaxOrdDenom)
    /\ c \in RBigSet(MaxOrdNumer, MaxOrdDenom)
    /\ cop = {} /\ eqres = "unset" /\ ordres = "unset" /\ hashres = "unset"
    /\ ArithIdle /\ GcdIdle /\ RoundIdle /\ NZIdle

\* a == b
CallEq ==
    /\ "eq" \notin cop
    /\ eqres' = eq(a, b)
    /\ cop' = cop \cup {"eq"}
    /\ UNCHANGED <<a, b, c, ordres, hashres, arithVars, gcdVars, roundVars, nzVars>>

\* a.cmp(&b)
CallCmp ==
    /\ "cmp" \notin cop
    /\ ordres' = cmp(a, b)
    /\ cop' = cop \cup {"cmp"}
    /\ UNCHANGED <<a, b, c, eqres, hashres, arithVars, gcdVars, roundVars, nzVars>>

\* a.hash(h) and b.hash(h): what each feeds to the hasher
CallHash ==
    /\ "hash" \notin cop
    /\ hashres' = <<hash_tuple(a), hash_tuple(b)>>
    /\ cop' = cop \cup {"hash"}
    /\ UNCHANGED <<a, b, c, eqres, ordres, arithVars, gcdVars, roundVars, nzVars>>

\* the pairwise comparisons of a, b and c
CallCmp3 ==
    /\ "cmp" \notin cop
    /\ ordres' = [ab |-> cmp(a, b), ba |-> cmp(b, a), bc |-> cmp(b, c), ac |-> cmp(a, c)]
    /\ cop' = cop \cup {"cmp"}
    /\ UNCHANGED <<a, b, c, eqres, hashres, arithVars, gcdVars, roundVars, nzVars>>

NextCmp == CallEq \/ CallCmp \/ CallHash

SpecCmp == InitCmp /\ [][NextCmp]_vars

NextOrder == CallEq \/ CallCmp3

SpecOrder == InitOrder /\ [][NextOrder]_vars

(***************************************************************************)
(* SpecRound: rx.round(D) is called once with one of the deciders          *)
(***************************************************************************)
InitRound ==
    /\ rx \in RBigSet(MaxRoundNumer, MaxRoundDenom)
    /\ rop = "init" /\ rdir = "init" /\ rres = 0
    /\ ArithIdle /\ CmpIdle /\ GcdIdle /\ NZIdle

RoundWith(name, D) ==
    /\ rop' = name
    /\ rdir' = decide(D, rx)
    /\ rres' = round(rx, D)
    /\ UNCHANGED <<rx, arithVars, cmpVars, gcdVars, nzVars>>

RoundTowardsZero == rop = "init" /\ RoundWith("TowardsZero", Literal("TowardsZero"))

RoundAwayFromZero == rop = "init" /\ RoundWith("AwayFromZero", Literal("AwayFromZero"))

RoundFloor == rop = "init" /\ RoundWith("Floor", Floor)

RoundCeil == rop = "init" /\ RoundWith("Ceil", Ceil)

RoundNearestEven == rop = "init" /\ RoundWith("NearestEven", TowardNearest(TowardNearestEven))

RoundNearestOdd == rop = "init" /\ RoundWith("NearestOdd", TowardNearest(TowardNearestOdd))

NextRound ==
    \/ RoundTowardsZero
    \/ RoundAwayFromZero
    \/ RoundFloor
    \/ RoundCeil
    \/ RoundNearestEven
    \/ RoundNearestOdd

SpecRound == InitRound /\ [][NextRound]_vars

(***************************************************************************)
(* SpecNZ: a NonZeroUBig driven through its safe operations; a panic ends  *)
(* the run                                                                 *)
(***************************************************************************)
InitNZ ==
    /\ nzv = nz_one /\ nzop = "one" /\ nzarg = 0 /\ nzout = "some"
    /\ ArithIdle /\ CmpIdle /\ GcdIdle /\ RoundIdle

NZStep(name, argv, result) ==
    /\ nzop' = name
    /\ nzarg' = argv
    /\ nzout' = result.kind
    /\ IF result.kind = "some"
       THEN result.val <= MaxNZ /\ nzv' = result.val
       ELSE nzv' = nzv
    /\ UNCHANGED <<arithVars, cmpVars, gcdVars, roundVars>>

NZOne == nzout # "panic" /\ NZStep("one", 0, Some(nz_one))

NZNew == \E u \in 0..MaxNZArg : nzout # "panic" /\ NZStep("new", u, nz_new(u))

NZPow == \E exp \in 0..MaxExp : nzout # "panic" /\ NZStep("pow", exp, Some(nz_pow(nzv, exp)))

NZMul == \E rhs \in 1..MaxNZArg : nzout # "panic" /\ NZStep("mul", rhs, Some(nz_mul(nzv, rhs)))

NZMulAssign == \E rhs \in 1..MaxNZArg : nzout # "panic" /\ NZStep("mul_assign", rhs, Some(nz_mul(nzv, rhs)))

NZDiv == \E rhs \in 0..MaxNZArg : nzout # "panic" /\ NZStep("div", rhs, nz_div(nzv, rhs))

NZDivAssign == \E rhs \in 0..MaxNZArg : nzout # "panic" /\ NZStep("div_assign", rhs, nz_div(nzv, rhs))

NZAdd == \E rhs \in 1..MaxNZArg : nzout # "panic" /\ NZStep("add", rhs, Some(nz_add(nzv, rhs)))

NextNZ ==
    \/ NZOne
    \/ NZNew
    \/ NZPow
    \/ NZMul
    \/ NZMulAssign
    \/ NZDiv
    \/ NZDivAssign
    \/ NZAdd

SpecNZ == InitNZ /\ [][NextNZ]_vars

(***************************************************************************)
(* Spec: an RBig register x, built by a safe constructor and driven        *)
(* through the safe operations.  prev is the register before the last      *)
(* operation, arg / inum / iden its operands, outcome whether it returned  *)
(* a value, returned None or panicked; a panic ends the run.  Results      *)
(* beyond MaxNumer / MaxDenom are not followed.                            *)
(***************************************************************************)
ArgRBig == RBigSet(MaxArgNumer, MaxArgDenom)

InBounds(v) == v.numer <= MaxNumer /\ v.denom <= MaxDenom

Init ==
    /\ \E n \in 0..MaxArgNumer :
          /\ x = from_ubig(n)
          /\ inum = n
    /\ prev = from_ubig(0) /\ arg = from_ubig(0) /\ iden = 0
    /\ op = "from_ubig" /\ outcome = "some"
    /\ CmpIdle /\ GcdIdle /\ RoundIdle /\ NZIdle

\* the register takes the value an operation returns; None and a panic
\* leave no new value
Store(name, before, argR, n, d, result) ==
    /\ op' = name
    /\ prev' = before
    /\ arg' = argR
    /\ inum' = n
    /\ iden' = d
    /\ outcome' = result.kind
    /\ IF result.kind = "some"
       THEN InBounds(result.val) /\ x' = result.val
       ELSE x' = x
    /\ UNCHANGED <<cmpVars, gcdVars, roundVars, nzVars>>

Running == outcome # "panic"

\* the caller builds its value first and operates on it afterwards: the
\* constructors replace the register only while nothing was applied to it
ConstructorOps ==
    {"new", "from_numer_denom", "from_numer_unsigned_denom", "from_ubig", "from_ibig"}

Constructing == Running /\ op \in ConstructorOps

New ==
    \E v \in ArgRBig :
       Constructing /\ Store("new", from_ubig(0), v, 0, 0,
                        Some(RBig_new(v.sign, v.numer, v.denom)))

FromNumerDenom ==
    \E n \in -MaxArgNumer..MaxArgNumer, d \in -MaxArgDenom..MaxArgDenom :
       Constructing /\ Store("from_numer_denom", from_ubig(0), from_ubig(0), n, d,
                        from_numer_denom(n, d))

FromNumerUnsignedDenom ==
    \E n \in -MaxArgNumer..MaxArgNumer, d \in 1..MaxArgDenom :
       Constructing /\ Store("from_numer_unsigned_denom", from_ubig(0), from_ubig(0), n, d,
                        Some(from_numer_unsigned_denom(n, d)))

FromUBig ==
    \E n \in 0..MaxArgNumer :
       Constructing /\ Store("from_ubig", from_ubig(0), from_ubig(0), n, 0,
                        Some(from_ubig(n)))

FromIBig ==
    \E n \in -MaxArgNumer..MaxArgNumer :
       Constructing /\ Store("from_ibig", from_ubig(0), from_ubig(0), n, 0,
                        Some(from_ibig(n)))

Add == \E rhs \in ArgRBig : Running /\ Store("add", x, rhs, 0, 0, Some(add(x, rhs)))

Sub == \E rhs \in ArgRBig : Running /\ Store("sub", x, rhs, 0, 0, Some(sub(x, rhs)))

Mul == \E rhs \in ArgRBig : Running /\ Store("mul", x, rhs, 0, 0, Some(mul(x, rhs)))

Div == \E rhs \in ArgRBig : Running /\ Store("div", x, rhs, 0, 0, div(x, rhs))

AddAssign ==
    \E rhs \in ArgRBig : Running /\ Store("add_assign", x, rhs, 0, 0, Some(add_assign(x, rhs)))

SubAssign ==
    \E rhs \in ArgRBig : Running /\ Store("sub_assign", x, rhs, 0, 0, Some(sub_assign(x, rhs)))

MulAssign ==
    \E rhs \in ArgRBig : Running /\ Store("mul_assign", x, rhs, 0, 0, Some(mul_assign(x, rhs)))

DivAssign ==
    \E rhs \in ArgRBig : Running /\ Store("div_assign", x, rhs, 0, 0, div_assign(x, rhs))

Neg == Running /\ Store("neg", x, from_ubig(0), 0, 0, Some(neg(x)))

CheckedRecip == Running /\ Store("checked_recip", x, from_ubig(0), 0, 0, checked_recip(x))

Recip == Running /\ Store("recip", x, from_ubig(0), 0, 0, recip(x))

Reduce == Running /\ Store("reduce", x, from_ubig(0), 0, 0, Some(reduce(x)))

Reduced == Running /\ Store("reduced", x, from_ubig(0), 0, 0, Some(reduced(x)))

Abs == Running /\ Store("abs", x, from_ubig(0), 0, 0, Some(abs(x)))

Signum == Running /\ Store("signum", x, from_ubig(0), 0, 0, Some(signum(x)))

UnsignedPow ==
    \E exp \in 0..MaxExp :
       Running /\ Store("unsigned_pow", x, from_ubig(0), exp, 0, Some(unsigned_pow(x, exp)))

SignedPow ==
    \E exp \in -MaxExp..MaxExp :
       Running /\ Store("signed_pow", x, from_ubig(0), exp, 0, signed_pow(x, exp))

Trunc == Running /\ Store("trunc", x, from_ubig(0), 0, 0, Some(trunc(x)))

Fract == Running /\ Store("fract", x, from_ubig(0), 0, 0, Some(fract(x)))

Next ==
    \/ New
    \/ FromNumerDenom
    \/ FromNumerUnsignedDenom
    \/ FromUBig
    \/ FromIBig
    \/ Add
    \/ Sub
    \/ Mul
    \/ Div
    \/ AddAssign
    \/ SubAssign
    \/ MulAssign
    \/ DivAssign
    \/ Neg
    \/ CheckedRecip
    \/ Recip
    \/ Reduce
    \/ Reduced
    \/ Abs
    \/ Signum
    \/ UnsignedPow
    \/ SignedPow
    \/ Trunc
    \/ Fract

Spec == Init /\ [][Next]_vars

(***************************************************************************)
(* The exact value of an RBig is SignedNumer(v) / v.denom                  *)
(***************************************************************************)
SignedNumer(v) == IF v.sign = "Positive" THEN v.numer ELSE -v.numer

Magnitude(i) == IF i >= 0 THEN i ELSE -i

Divides(d, n) == d # 0 /\ n % d = 0

Reverse(o) == CASE o = "Less" -> "Greater" [] o = "Equal" -> "Equal" [] o = "Greater" -> "Less"

(***************************************************************************)
(* Properties                                                              *)
(***************************************************************************)

\* C1: every RBig built by a safe constructor and driven through the safe
\* operations has a non-zero denominator; from_numer_denom with a zero
\* denominator and checked_recip of zero return None, recip of zero panics.
DenomNeverZero ==
    /\ x.denom # 0
    /\ (op = "from_numer_denom" /\ iden = 0) => outcome = "none"
    /\ (op = "checked_recip" /\ prev.numer = 0) => outcome = "none"
    /\ (op = "recip" /\ prev.numer = 0) => outcome = "panic"

\* a reciprocal was taken of a non-integer value after earlier operations:
\* the old numerator is the new denominator
DenomNeverZeroWitness ==
    /\ op = "recip" /\ outcome = "some"
    /\ prev.numer > 1 /\ prev.denom > 1
    /\ x.denom = prev.numer

\* C2: a.cmp(b) is the order of the exact values of a and b.
CmpIsNumericalOrder ==
    "cmp" \in cop =>
        ordres = ord_cmp(SignedNumer(a) * b.denom, SignedNumer(b) * a.denom)

\* C3: a == b exactly when the exact values are equal: all zeros are equal,
\* a zero equals no non-zero value, and no non-zero x equals -x.
EqIsExactEquality ==
    "eq" \in cop =>
        /\ eqres <=> (SignedNumer(a) * b.denom = SignedNumer(b) * a.denom)
        /\ (a.numer = 0 /\ b.numer = 0) => eqres
        /\ ((a.numer = 0) # (b.numer = 0)) => ~eqres
        /\ (a.numer # 0 /\ b = neg(a)) => ~eqres

\* an unreduced and a reduced form of the same non-zero fraction are equal
EqIsExactEqualityWitness ==
    /\ "eq" \in cop /\ eqres
    /\ a.numer # 0 /\ a.denom # b.denom

\* C4: cmp is a total order consistent with ==: Equal exactly when ==,
\* antisymmetric, transitive, equal values compare alike against a third,
\* and negative < zero < positive.
OrdIsTotalOrder ==
    cop = {"eq", "cmp"} =>
        /\ (ordres.ab = "Equal") <=> eqres
        /\ ordres.ba = Reverse(ordres.ab)
        /\ (ordres.ab = "Less" /\ ordres.bc = "Less") => ordres.ac = "Less"
        /\ eqres => ordres.ac = ordres.bc
        /\ (SignedNumer(a) < 0 /\ SignedNumer(b) = 0) => ordres.ab = "Less"
        /\ (SignedNumer(a) = 0 /\ SignedNumer(b) > 0) => ordres.ab = "Less"
        /\ (SignedNumer(a) < 0 /\ SignedNumer(b) > 0) => ordres.ab = "Less"

\* a negative value, a zero stored with the negative sign and a positive value
OrdIsTotalOrderWitness ==
    /\ cop = {"eq", "cmp"}
    /\ SignedNumer(a) < 0
    /\ b.numer = 0 /\ b.sign = "Negative"
    /\ SignedNumer(c) > 0
    /\ ordres.ab = "Less" /\ ordres.bc = "Less" /\ ordres.ac = "Less"

\* C5: values that are == feed the same tuple to the hasher, and every zero
\* feeds (Positive, 0, 1).
HashConsistentWithEq ==
    /\ {"eq", "hash"} \subseteq cop => (eqres => hashres[1] = hashres[2])
    /\ "hash" \in cop =>
        /\ a.numer = 0 => hashres[1] = <<"Positive", 0, 1>>
        /\ b.numer = 0 => hashres[2] = <<"Positive", 0, 1>>

\* two different representations of the same non-zero fraction were hashed
HashConsistentWithEqWitness ==
    /\ {"eq", "hash"} \subseteq cop /\ eqres
    /\ a.numer # 0 /\ a.numer # b.numer
    /\ hashres[1] = hashres[2]

\* C6: gcd returns the greatest common divisor, the zero base cases
\* included: gcd(0, m) = m, gcd(n, 0) = n, gcd(n, n) = n, gcd(n, m) =
\* gcd(m, n), and for n, m not both zero gcd(n, m) divides both and no
\* larger integer does.
GcdIsGreatestCommonDivisor ==
    gdone =>
        /\ gn = 0 => gres = gm
        /\ gm = 0 => gres = gn
        /\ gn = gm => gres = gn
        /\ gres = gcd(gm, gn)
        /\ (gn # 0 \/ gm # 0) =>
              /\ Divides(gres, gn) /\ Divides(gres, gm)
              /\ \A d \in 1..MaxGcdArg + 1 :
                    (Divides(d, gn) /\ Divides(d, gm)) => d <= gres

\* C7: after a += b the register == a + b, the exact sum, with the sign kept
\* exactly when a's rescaled numerator is >= delta for mixed signs; after
\* a -= b the register == a - b, the exact difference.
AddAssignAgreesWithAdd ==
    /\ op = "add_assign" =>
        /\ eq(x, add(prev, arg))
        /\ SignedNumer(x) * prev.denom * arg.denom
             = (SignedNumer(prev) * arg.denom + SignedNumer(arg) * prev.denom) * x.denom
        /\ prev.sign # arg.sign =>
             (x.sign = prev.sign <=> prev.numer * arg.denom >= arg.numer * prev.denom)
    /\ op = "sub_assign" =>
        /\ eq(x, sub(prev, arg))
        /\ SignedNumer(x) * prev.denom * arg.denom
             = (SignedNumer(prev) * arg.denom - SignedNumer(arg) * prev.denom) * x.denom

\* 1/4 += -3/4 crossed the magnitude boundary: the sign flipped, -8/16
AddAssignAgreesWithAddWitness ==
    /\ op = "add_assign"
    /\ prev = RBig_new("Positive", 1, 4)
    /\ arg = RBig_new("Negative", 3, 4)
    /\ x = RBig_new("Negative", 8, 16)

\* C8: round(Floor) is the greatest integer <= x and round(Ceil) the least
\* integer >= x; Floor decides AwayFromZero exactly when x < 0, Ceil exactly
\* when x > 0.
FloorCeilExact ==
    /\ rop = "Floor" =>
        /\ rres * rx.denom <= SignedNumer(rx)
        /\ SignedNumer(rx) < (rres + 1) * rx.denom
        /\ rdir = "AwayFromZero" <=> SignedNumer(rx) < 0
    /\ rop = "Ceil" =>
        /\ rres * rx.denom >= SignedNumer(rx)
        /\ SignedNumer(rx) > (rres - 1) * rx.denom
        /\ rdir = "AwayFromZero" <=> SignedNumer(rx) > 0

\* -4/2, an integer stored unreduced, was floored to -2
FloorCeilExactWitness ==
    /\ rop = "Floor"
    /\ rx = RBig_new("Negative", 4, 2)
    /\ rdir = "AwayFromZero" /\ rres = -2

\* C9: round(TowardNearest{T}) is the nearest integer off a tie, deciding
\* AwayFromZero exactly when 2 * |fractional numerator| > denominator; on a
\* tie it is the even neighbour for TowardNearestEven and the odd one for
\* TowardNearestOdd.
NearestExact ==
    rop \in {"NearestEven", "NearestOdd"} =>
        LET fr == rx.numer % rx.denom
            dist == Magnitude(rres * rx.denom - SignedNumer(rx))
        IN /\ 2 * fr # rx.denom =>
                /\ 2 * dist < rx.denom
                /\ rdir = "AwayFromZero" <=> 2 * fr > rx.denom
           /\ 2 * fr = rx.denom =>
                /\ 2 * dist = rx.denom
                /\ rop = "NearestEven" => Magnitude(rres) % 2 = 0
                /\ rop = "NearestOdd" => Magnitude(rres) % 2 = 1

\* the tie -7/2 went to the even neighbour -4
NearestExactWitness ==
    /\ rop = "NearestEven"
    /\ rx = RBig_new("Negative", 7, 2)
    /\ rres = -4

\* C10: no sequence of safe NonZeroUBig operations leaves the wrapper
\* holding 0.
NZInnerNonZero == nzv # 0

====
